---------------------------- MODULE Spec2Model ----------------------------
(***************************************************************************)
(* A model of brilliant_moves_clf: the tree-feature pipeline of            *)
(* shared/utility.py (get_subtree_data, get_data, feature_transform,       *)
(* index_flat, parse_trees), the tree generation of generate_trees.py and  *)
(* the move extraction of pgn_parser.py.                                   *)
(*                                                                         *)
(* Numbers.  The program computes in Python ints and float64.  The model   *)
(* carries every feature value as a fixed-point integer: the value v is    *)
(* stored as v * Scale, a quotient is rounded toward minus infinity and a  *)
(* square root is the integer square root.  Scale is a multiple of 8 and   *)
(* of 10, so the tenths used for Q and P and the division by the padded    *)
(* width length 8 are exact, as they are (up to rounding) in float64.      *)
(*                                                                         *)
(* Python's None is the value None; a Python sequence s is a TLA+ sequence *)
(* with s[i] (0-based) at position i+1.                                    *)
(*                                                                         *)
(* Five specifications share the module:                                   *)
(*   SpecIndex  index_flat applied to every valid address,                 *)
(*   SpecTree   get_subtree_data and feature_transform applied to every    *)
(*              tree of a bounded family,                                  *)
(*   Spec       a call of parse_trees, one step per loop iteration,        *)
(*   SpecGen    a call of generate_trees next to the Lc0 process it        *)
(*              drives through stdin and the file tree.gml,                *)
(*   SpecPgn    a call of moves_from_pgn on one game.                      *)
(* The variables of the others are idle in each.                           *)
(***************************************************************************)
EXTENDS Integers, Sequences, FiniteSets, TLC

VARIABLES
    pending,    \* index_flat harness: the vectors whose addresses are not yet looked up
    offsets,    \* index_flat harness: the offsets index_flat has returned
    calls,      \* index_flat harness: the number of addresses looked up
    last,       \* index_flat harness: the last vector looked up and its offsets
    G,          \* extraction harness: the game tree (a networkx DiGraph)
    uci,        \* extraction harness: the move of interest
    root,       \* extraction harness: the root of the last extraction, or None
    res,        \* extraction harness: what get_subtree_data returned
    feat,       \* extraction harness: what feature_transform returned for res
    fs,         \* parse_trees: the files on disk (moves, trees, statistics)
    pc,         \* parse_trees: where the call is (move, weight, tree size)
    X,          \* parse_trees: the feature rows built so far, before normalization
    y,          \* parse_trees: the labels read so far (training)
    ret,        \* parse_trees: the returned (normalized X, y), once it returned
    args,       \* generate_trees: the arguments and the moves directory
    gen,        \* generate_trees: the locals of the call and its position
    lc0,        \* generate_trees: the Lc0 process p (stdin, what it is writing)
    cwd,        \* generate_trees: the file tree.gml of the working directory
    hist,       \* generate_trees: the last file stored, the last reset, timeouts
    game,       \* moves_from_pgn: the game read from the PGN and the arguments
    walk        \* moves_from_pgn: queue, moves, the directories written, position

indexVars == <<pending, offsets, calls, last>>
treeVars == <<G, uci, root, res, feat>>
parseVars == <<fs, pc, X, y, ret>>
genVars == <<args, gen, lc0, cwd, hist>>
pgnVars == <<game, walk>>
vars == <<indexVars, treeVars, parseVars, genVars, pgnVars>>

Scale == 10^3
None == -1
Idle == <<>>

(***************************************************************************)
(* Layout constants of the feature vector.                                 *)
(***************************************************************************)
NumWeights == 2
NumTrees == 5
NumFeat == 22
NumSubsets == 4
NumAggs == 4
RowLen == 3980
BlockLen == NumFeat * 18 + 2

(***************************************************************************)
(* index_flat(weight, tree, index, subtree, agg)                           *)
(***************************************************************************)
\* Faulty variant: three aggregation slots per subset instead of four.
index_flat_narrow_subset(weight, tree, index, subtree, agg) ==
    LET base == weight * 5 * (22 * 18 + 2) + tree * (22 * 18 + 2)
    IN  IF subtree = None THEN base + index
        ELSE IF subtree < 2 THEN base + 2 + 22 * subtree + index
        ELSE LET subset == subtree - 2
             IN  base + 2 + 22 * 2 + 22 * 3 * subset + agg * 22 + index

index_flat(weight, tree, index, subtree, agg) ==
    LET base == weight * 5 * (22 * 18 + 2) + tree * (22 * 18 + 2)
    IN  IF subtree = None THEN base + index
        ELSE IF subtree < 2 THEN base + 2 + 22 * subtree + index
        ELSE LET subset == subtree - 2
             IN  base + 2 + 22 * 2 + 22 * 4 * subset + agg * 22 + index

(***************************************************************************)
(* The valid addresses of the feature space, grouped by vector: the two    *)
(* presence flags of a (weight, tree) block, its parent and                *)
(* move-of-interest vectors, and the four aggregations of each of its four *)
(* move subsets.                                                           *)
(***************************************************************************)
Vector(w, t, s, a) == [weight |-> w, tree |-> t, subtree |-> s, agg |-> a]

ValidVectors ==
    UNION { UNION {
        { Vector(w, t, None, 0) }
        \cup { Vector(w, t, s, 0) : s \in 0..1 }
        \cup { Vector(w, t, s, a) :
                 s \in 2..(NumSubsets + 1), a \in 0..(NumAggs - 1) }
        : t \in 0..(NumTrees - 1) } : w \in 0..(NumWeights - 1) }

IndicesOf(v) == IF v.subtree = None THEN 0..1 ELSE 0..(NumFeat - 1)

OffsetsOfVector(v) ==
    { index_flat(v.weight, v.tree, i, v.subtree, v.agg) : i \in IndicesOf(v) }

InitIndex ==
    /\ pending = ValidVectors
    /\ offsets = {}
    /\ calls = 0
    /\ last = Idle
    /\ G = Idle /\ uci = Idle /\ root = Idle /\ res = Idle /\ feat = Idle
    /\ fs = Idle /\ pc = Idle /\ X = Idle /\ y = Idle /\ ret = Idle
    /\ args = Idle /\ gen = Idle /\ lc0 = Idle /\ cwd = Idle /\ hist = Idle
    /\ game = Idle /\ walk = Idle

\* The addresses of one vector, every index of it, are passed to index_flat.
LookUp ==
    /\ pending # {}
    /\ LET v == CHOOSE x \in pending : TRUE
       IN  /\ pending' = pending \ {v}
           /\ offsets' = offsets \cup OffsetsOfVector(v)
           /\ calls' = calls + Cardinality(IndicesOf(v))
           /\ last' = [vector |-> v, offsets |-> OffsetsOfVector(v)]
    /\ UNCHANGED <<treeVars, parseVars, genVars, pgnVars>>

NextIndex == LookUp

SpecIndex == InitIndex /\ [][NextIndex]_vars

(***************************************************************************)
(* C1: index_flat is a bijection from the valid addresses onto 0..3979:    *)
(* the offsets of the addresses looked up so far are pairwise distinct     *)
(* (as many offsets as addresses) and lie in the (weight, tree) block of   *)
(* 398 consecutive offsets, and once every address is looked up the        *)
(* offsets are exactly 0..3979.                                            *)
(***************************************************************************)
BlockOffsets(w, t) ==
    LET lo == (w * NumTrees + t) * BlockLen IN lo..(lo + BlockLen - 1)

C1_IndexFlatBijection ==
    /\ Cardinality(offsets) = calls
    /\ offsets \subseteq 0..(RowLen - 1)
    /\ last # Idle =>
         last.offsets \subseteq BlockOffsets(last.vector.weight, last.vector.tree)
    /\ pending = {} => offsets = 0..(RowLen - 1)

C1_Witness ==
    /\ pending = {}
    /\ calls = RowLen
    /\ Cardinality(offsets) = RowLen

(***************************************************************************)
(* Fixed-point arithmetic.                                                 *)
(***************************************************************************)
Num(k) == k * Scale
Tenths(k) == (k * Scale) \div 10
BoolNum(b) == IF b THEN Num(1) ELSE Num(0)
Quot(a, b) == (a * Scale) \div b

RECURSIVE SqrtBetween(_, _, _)
SqrtBetween(x, lo, hi) ==
    IF lo >= hi THEN lo
    ELSE LET mid == (lo + hi + 1) \div 2
         IN  IF mid * mid <= x THEN SqrtBetween(x, mid, hi)
             ELSE SqrtBetween(x, lo, mid - 1)

\* The largest r with r * r <= x.
ISqrt(x) == SqrtBetween(x, 0, 46340)

RECURSIVE SeqSum(_)
SeqSum(s) == IF s = <<>> THEN 0 ELSE Head(s) + SeqSum(Tail(s))

RECURSIVE SeqMax(_)
SeqMax(s) ==
    IF Len(s) = 1 THEN s[1]
    ELSE LET m == SeqMax(Tail(s)) IN IF s[1] >= m THEN s[1] ELSE m

RECURSIVE SeqMin(_)
SeqMin(s) ==
    IF Len(s) = 1 THEN s[1]
    ELSE LET m == SeqMin(Tail(s)) IN IF s[1] <= m THEN s[1] ELSE m

\* numpy.mean, numpy.std (population), numpy.max, numpy.min of a non-empty list
\* of fixed-point numbers.
NpMean(s) == SeqSum(s) \div Len(s)
NpStd(s) ==
    LET n == Len(s)
        sq == SeqSum([k \in 1..n |-> s[k] * s[k]])
        sm == SeqSum(s)
    IN  ISqrt(n * sq - sm * sm) \div n
NpMax(s) == SeqMax(s)
NpMin(s) == SeqMin(s)

(***************************************************************************)
(* The tree store.  A game tree is a directed graph on the nodes           *)
(* 0..n-1 with node 0 the board before the move of interest:               *)
(*   succ[u]  the successors of u in the graph's iteration order,          *)
(*   N, Q, P  the node attributes (fixed-point), hasP whether node 0       *)
(*            carries a P attribute, move the move leading to a node.      *)
(***************************************************************************)
Nodes(Gr) == 0..(Gr.n - 1)
Successors(Gr, u) == Gr.succ[u]
SuccSet(Gr, u) == { Gr.succ[u][k] : k \in 1..Len(Gr.succ[u]) }
OutDegree(Gr, x) == Len(Gr.succ[x])
InDegree(Gr, x) == Cardinality({ u \in Nodes(Gr) : x \in SuccSet(Gr, u) })

\* networkx's breadth-first search from a source: the pairs <<node, distance>>
\* in the order shortest_path_length yields them.
RECURSIVE ScanAdj(_, _, _, _)
ScanAdj(adj, level, seen, acc) ==
    IF adj = <<>> THEN [seen |-> seen, out |-> acc]
    ELSE IF Head(adj) \in seen THEN ScanAdj(Tail(adj), level, seen, acc)
    ELSE ScanAdj(Tail(adj), level, seen \cup {Head(adj)},
                 Append(acc, <<Head(adj), level>>))

RECURSIVE ScanLevel(_, _, _, _, _)
ScanLevel(Gr, thislevel, level, seen, acc) ==
    IF thislevel = <<>> THEN [seen |-> seen, out |-> acc]
    ELSE LET r == ScanAdj(Successors(Gr, Head(thislevel)[1]), level, seen, acc)
         IN  ScanLevel(Gr, Tail(thislevel), level, r.seen, r.out)

RECURSIVE BfsFrom(_, _, _, _)
BfsFrom(Gr, thislevel, level, seen) ==
    IF thislevel = <<>> THEN <<>>
    ELSE LET r == ScanLevel(Gr, thislevel, level + 1, seen, <<>>)
         IN  thislevel \o BfsFrom(Gr, r.out, level + 1, r.seen)

shortest_path_length(Gr, source) ==
    BfsFrom(Gr, << <<source, 0>> >>, 0, {source})

descendants(Gr, source) ==
    LET sp == shortest_path_length(Gr, source)
    IN  { sp[k][1] : k \in 1..Len(sp) } \ {source}


(***************************************************************************)
(* get_subtree_data(G, uci, root)                                          *)
(***************************************************************************)
\* Faulty variant: root_Q subtracted instead of its negation.
IsImproving_minus(Q, root_Q) == Q - root_Q > 0

\* Line 90: a move is improving when Q - (-root_Q) > 0.
IsImproving(Q, root_Q) == Q - (0 - root_Q) > 0
\* Line 94: a move is advantageous when Q > 0.
IsAdvantageous(Q) == Q > 0
\* Faulty variant: the first match is kept.
MatchedMoveNode_first(move_node, i) == IF move_node = None THEN i ELSE move_node
\* Faulty variant: a tie with max_Q does not count as best.
MoveIsBest_strict(move_Q, max_Q) == move_Q > max_Q

\* Line 88: a successor whose move is the move of interest becomes move_node.
MatchedMoveNode(move_node, i) == i
\* Line 100.
MoveIsBest(move_Q, max_Q) == move_Q >= max_Q

\* Lines 58-65: the loop's variables before the first successor.
LoopStart ==
    [improving_moves |-> <<>>, adv_moves |-> <<>>, losing_moves |-> <<>>,
     disadv_moves |-> <<>>, move_node |-> None,
     max_Q |-> Num(-1), max_P |-> Num(0), max_N |-> Num(0)]

\* Lines 74-97: the loop body for successor i.
LoopBody(Gr, u, root_Q, i, v) ==
    LET N == Gr.N[i]
        Q == Gr.Q[i]
        P == Gr.P[i]
        move == Gr.move[i]
        v1 == [v EXCEPT !.max_N = IF N > @ THEN N ELSE @,
                        !.max_Q = IF Q > @ THEN Q ELSE @,
                        !.max_P = IF P > @ THEN P ELSE @]
    IN  IF move = u
        THEN [v1 EXCEPT !.move_node = MatchedMoveNode(@, i)]
        ELSE [v1 EXCEPT
                !.improving_moves =
                    IF IsImproving(Q, root_Q) THEN Append(@, i) ELSE @,
                !.losing_moves =
                    IF IsImproving(Q, root_Q) THEN @ ELSE Append(@, i),
                !.adv_moves = IF IsAdvantageous(Q) THEN Append(@, i) ELSE @,
                !.disadv_moves = IF IsAdvantageous(Q) THEN @ ELSE Append(@, i)]

RECURSIVE SuccessorsLoop(_, _, _, _, _)
SuccessorsLoop(Gr, u, root_Q, succs, v) ==
    IF succs = <<>> THEN v
    ELSE SuccessorsLoop(Gr, u, root_Q, Tail(succs),
                        LoopBody(Gr, u, root_Q, Head(succs), v))

\* Faulty variant: every descendant without successors counts as a leaf.
BranchingFactor_any_in_degree(Gr, r) ==
    LET desc == descendants(Gr, r)
        leaves == { x \in desc : OutDegree(Gr, x) = 0 }
    IN  IF Cardinality(leaves) = 0 THEN Num(-1)
        ELSE Quot(Cardinality(desc) - 1, Cardinality(leaves))

\* Lines 102-106: (N-1)/(number of leaves), -1 when the division fails.
BranchingFactor(Gr, r) ==
    LET desc == descendants(Gr, r)
        leaves == { x \in desc : OutDegree(Gr, x) = 0 /\ InDegree(Gr, x) = 1 }
    IN  IF Cardinality(leaves) = 0 THEN Num(-1)
        ELSE Quot(Cardinality(desc) - 1, Cardinality(leaves))

\* A Python dict as the sequence of its <<key, value>> items in insertion order.
DictKeys(d) == { d[k][1] : k \in 1..Len(d) }
DictGet(d, key, default) ==
    IF key \in DictKeys(d)
    THEN d[CHOOSE k \in 1..Len(d) : d[k][1] = key][2]
    ELSE default
DictSet(d, key, val) ==
    IF key \in DictKeys(d)
    THEN [k \in 1..Len(d) |-> IF d[k][1] = key THEN <<key, val>> ELSE d[k]]
    ELSE Append(d, <<key, val>>)
DictValues(d) == [k \in 1..Len(d) |-> d[k][2]]

\* Lines 108-110: the number of nodes at each distance.
RECURSIVE WidthLoop(_, _)
WidthLoop(items, width) ==
    IF items = <<>> THEN width
    ELSE LET v == Head(items)[2]
         IN  WidthLoop(Tail(items), DictSet(width, v, DictGet(width, v, 0) + 1))

\* Faulty variant: the root itself is not counted.
WidthProfile_descendants(Gr, r) ==
    WidthLoop(Tail(shortest_path_length(Gr, r)), <<>>)

WidthProfile(Gr, r) == WidthLoop(shortest_path_length(Gr, r), <<>>)

\* Faulty variant: the number of levels instead of the largest distance.
Height_levels(width) == IF width = <<>> THEN -1 ELSE Len(width)

\* Lines 111-114.
Height(width) ==
    IF width = <<>> THEN -1
    ELSE SeqMax([k \in 1..Len(width) |-> width[k][1]])

\* The returned 15-tuple of line 116, in its order.  Counts and attributes are
\* fixed-point; node ids, the width dict and the height are plain integers.
get_subtree_data(Gr, u, r) ==
    LET root_Q == Gr.Q[r]
        root_P == IF r = 0 /\ ~Gr.hasP THEN Num(0) ELSE Gr.P[r]
        root_N == Gr.N[r]
        v == SuccessorsLoop(Gr, u, root_Q, Successors(Gr, r), LoopStart)
        move_is_best ==
            IF v.move_node # None
            THEN MoveIsBest(Gr.Q[v.move_node], v.max_Q) ELSE FALSE
        bf == BranchingFactor(Gr, r)
        width == WidthProfile(Gr, r)
        height == Height(width)
    IN  <<v.improving_moves, v.adv_moves, v.losing_moves, v.disadv_moves,
          v.move_node, v.max_Q, v.max_P, v.max_N, root_Q, root_P, root_N,
          bf, width, height, move_is_best>>

(***************************************************************************)
(* feature_transform(subtree_data)                                         *)
(***************************************************************************)
\* Python's s[a:b] for 0 <= a <= b.
Slice(s, a, b) ==
    LET hi == IF b > Len(s) THEN Len(s) ELSE b
    IN  IF a >= hi THEN <<>> ELSE [k \in 1..(hi - a) |-> s[a + k]]

\* [0] * k, empty when k <= 0.
Zeros(k) == IF k <= 0 THEN <<>> ELSE [j \in 1..k |-> 0]

\* Faulty variant: the maxima in the order max_N, max_Q, max_P.
SingleValues_NQP(subtree_data) ==
    <<subtree_data[8], subtree_data[6], subtree_data[7]>>
    \o Slice(subtree_data, 8, 12)

\* Line 157: the single-value features subtree_data[5:12].
SingleValues(subtree_data) == Slice(subtree_data, 5, 12)

\* Faulty variant: the width list cut to its first 8 entries.
PaddedWidths_cut(w0) == Slice(w0 \o Zeros(8 - Len(w0)), 0, 8)

\* Line 159: widths += [0] * (8-len(widths)).
PaddedWidths(w0) == w0 \o Zeros(8 - Len(w0))

feature_transform(subtree_data) ==
    LET lens == [k \in 1..4 |-> Num(Len(subtree_data[k]))]
        w0 == DictValues(subtree_data[13])
        widths == PaddedWidths(w0)
        w == [k \in 1..Len(widths) |-> Num(widths[k])]
    IN  lens \o SingleValues(subtree_data) \o Slice(w, 1, 8)
        \o <<NpMean(w), NpStd(w), NpMax(w), Num(subtree_data[14])>>


(***************************************************************************)
(* The extraction harness: get_subtree_data and feature_transform applied  *)
(* to every game tree of a bounded family.  A tree of the family has at    *)
(* most MaxNodes nodes: a rooted tree (parent[i] < i), possibly one more   *)
(* edge (a transposition or a cycle) that does not enter node 0, with Q, a *)
(* move on every node but 0, and N, P and the presence of P on node 0      *)
(* taken from a profile.  The family also holds the deep trees: a line of  *)
(* up to MaxChain nodes whose last node hangs under any earlier node, so   *)
(* that subtrees of more than 8 levels occur.  One behaviour is one        *)
(* extraction.                                                             *)
(***************************************************************************)
MaxNodes == 3
MaxChain == 10
Moves == {"e2e4", "d2d4"}
QVals == {Tenths(-3), Tenths(-1), Tenths(3)}
NVals == <<5, 3, 1>>
PVals == <<6, 3, 1>>
StatProfiles == { [sel |-> 0, hasP |-> TRUE], [sel |-> 1, hasP |-> FALSE] }
UciInputs == {"e2e4"}

RECURSIVE SetToSeq(_)
SetToSeq(S) ==
    IF S = {} THEN <<>>
    ELSE LET m == CHOOSE x \in S : \A z \in S : x <= z
         IN  <<m>> \o SetToSeq(S \ {m})

ParentVectors(n) == { p \in [1..(n - 1) -> 0..(n - 1)] : \A i \in 1..(n - 1) : p[i] < i }

ExtraEdges(n, p) ==
    { <<>> } \cup { e \in (0..(n - 1)) \X (1..(n - 1)) : e[1] # e[2] /\ p[e[2]] # e[1] }

SuccOf(n, p, e, u) ==
    SetToSeq({ c \in 1..(n - 1) : p[c] = u })
    \o (IF e # <<>> /\ e[1] = u THEN <<e[2]>> ELSE <<>>)

MakeTree(n, p, e, q, mv, sp) ==
    [n |-> n,
     succ |-> [u \in 0..(n - 1) |-> SuccOf(n, p, e, u)],
     Q |-> q,
     N |-> [i \in 0..(n - 1) |-> Num(NVals[((i + sp.sel) % 3) + 1])],
     P |-> [i \in 0..(n - 1) |-> Tenths(PVals[((i + 2 * sp.sel) % 3) + 1])],
     hasP |-> sp.hasP,
     move |-> mv]

\* A line 0 - 1 - ... - (n-2) with node n-1 under node b.
DeepParent(n, b) == [i \in 1..(n - 1) |-> IF i = n - 1 THEN b ELSE i - 1]
DeepQ(n) == [i \in 0..(n - 1) |-> Tenths(IF i % 2 = 0 THEN 3 ELSE -1)]
DeepMoves(n) == [i \in 1..(n - 1) |-> IF i % 2 = 1 THEN "e2e4" ELSE "d2d4"]

InitTree ==
    /\ \/ \E n \in 1..MaxNodes :
            \E p \in ParentVectors(n) :
               \E e \in ExtraEdges(n, p), q \in [0..(n - 1) -> QVals],
                  mv \in [1..(n - 1) -> Moves], sp \in StatProfiles :
                    G = MakeTree(n, p, e, q, mv, sp)
       \/ \E n \in (MaxNodes + 1)..MaxChain :
            \E b \in 0..(n - 2), sp \in StatProfiles :
               G = MakeTree(n, DeepParent(n, b), <<>>, DeepQ(n), DeepMoves(n), sp)
    /\ uci \in UciInputs
    /\ root = None
    /\ res = Idle
    /\ feat = Idle
    /\ pending = Idle /\ offsets = Idle /\ calls = Idle /\ last = Idle
    /\ fs = Idle /\ pc = Idle /\ X = Idle /\ y = Idle /\ ret = Idle
    /\ args = Idle /\ gen = Idle /\ lc0 = Idle /\ cwd = Idle /\ hist = Idle
    /\ game = Idle /\ walk = Idle

\* A call get_subtree_data(G, uci, r).
Extract(r) ==
    /\ root = None
    /\ root' = r
    /\ res' = get_subtree_data(G, uci, r)
    /\ feat' = Idle
    /\ UNCHANGED <<G, uci, indexVars, parseVars, genVars, pgnVars>>

\* A call feature_transform(res) on the last extraction.
Transform ==
    /\ root # None
    /\ feat = Idle
    /\ feat' = feature_transform(res)
    /\ UNCHANGED <<G, uci, root, res, indexVars, parseVars, genVars, pgnVars>>

NextTree ==
    \/ \E r \in Nodes(G) : Extract(r)
    \/ Transform

SpecTree == InitTree /\ [][NextTree]_vars


(***************************************************************************)
(* What the claims about one extraction speak of, stated on the graph.     *)
(***************************************************************************)
Extracted == root # None
SeqSet(s) == { s[k] : k \in 1..Len(s) }
SetMax(S) == CHOOSE x \in S : \A z \in S : x >= z
SetMin(S) == CHOOSE x \in S : \A z \in S : x <= z
Succs == SuccSet(G, root)
Matching == { c \in Succs : G.move[c] = uci }
Others == Succs \ Matching
\* Positions, in iteration order, of the successors carrying the move of interest.
MatchingAt == { k \in 1..Len(G.succ[root]) : G.move[G.succ[root][k]] = uci }

\* The nodes a walk of exactly k edges from the root can end in.
RECURSIVE WalkEnds(_)
WalkEnds(k) ==
    IF k = 0 THEN {root}
    ELSE UNION { SuccSet(G, u) : u \in WalkEnds(k - 1) }
Reachable == UNION { WalkEnds(k) : k \in 0..(G.n - 1) }
Distance(v) == SetMin({ k \in 0..(G.n - 1) : v \in WalkEnds(k) })

(***************************************************************************)
(* C4 (as amended): feature_transform emits positions 0..3 = the sizes of  *)
(* improving, advantageous, losing, disadvantageous, position 4 = max_Q,   *)
(* position 5 = max_P, position 6 = max_N, positions 7..9 = root_Q,        *)
(* root_P, root_N and position 10 = the branching factor.                  *)
(***************************************************************************)
ExpImproving == { c \in Others : G.Q[c] + G.Q[root] > 0 }
ExpAdvantageous == { c \in Others : G.Q[c] > 0 }
ExpMaxQ == SetMax({Num(-1)} \cup { G.Q[c] : c \in Succs })
ExpMaxP == SetMax({Num(0)} \cup { G.P[c] : c \in Succs })
ExpMaxN == SetMax({Num(0)} \cup { G.N[c] : c \in Succs })
ExpRootP == IF root = 0 /\ ~G.hasP THEN Num(0) ELSE G.P[root]

Transformed == Extracted /\ Len(feat) > 0

ScalarsExceptMax ==
    /\ feat[1] = Num(Cardinality(ExpImproving))
    /\ feat[2] = Num(Cardinality(ExpAdvantageous))
    /\ feat[3] = Num(Cardinality(Others \ ExpImproving))
    /\ feat[4] = Num(Cardinality(Others \ ExpAdvantageous))
    /\ feat[8] = G.Q[root]
    /\ feat[9] = ExpRootP
    /\ feat[10] = G.N[root]
    /\ feat[11] = res[12]

C4_ScalarOrder_QPN ==
    Transformed =>
        /\ ScalarsExceptMax
        /\ feat[5] = ExpMaxQ
        /\ feat[6] = ExpMaxP
        /\ feat[7] = ExpMaxN

\* C4 as stated: position 4 is max_N, position 5 is max_Q, position 6 is max_P.
C4_ScalarOrder_NQP ==
    Transformed =>
        /\ ScalarsExceptMax
        /\ feat[5] = ExpMaxN
        /\ feat[6] = ExpMaxQ
        /\ feat[7] = ExpMaxP

C4_Witness ==
    /\ Transformed
    /\ Cardinality(Succs) >= 2
    /\ ExpImproving # {}
    /\ ExpMaxQ # ExpMaxN

(***************************************************************************)
(* C7 (as amended): improving and losing are disjoint, advantageous and    *)
(* disadvantageous are disjoint, and improving \cup losing =               *)
(* advantageous \cup disadvantageous = the successors of root minus every  *)
(* successor whose move is the move of interest; a successor among those   *)
(* is improving iff Q + root_Q > 0 and advantageous iff Q > 0.             *)
(***************************************************************************)
PartitionOf(rest) ==
    LET imp == SeqSet(res[1])
        adv == SeqSet(res[2])
        los == SeqSet(res[3])
        dis == SeqSet(res[4])
    IN  /\ imp \cap los = {}
        /\ adv \cap dis = {}
        /\ imp \cup los = rest
        /\ adv \cup dis = rest
        /\ \A k \in 1..4 : Cardinality(SeqSet(res[k])) = Len(res[k])
        /\ \A c \in rest :
             /\ c \in imp <=> G.Q[c] + G.Q[root] > 0
             /\ c \in adv <=> G.Q[c] > 0

C7_PartitionOfNonMatching == Extracted => PartitionOf(Others)

\* C7 as stated: the sets cover the successors minus the returned node.
C7_PartitionMinusReturnedNode == Extracted => PartitionOf(Succs \ {res[5]})

\* The move of interest is found and another successor is improving yet
\* disadvantageous.
C7_Witness ==
    /\ Extracted
    /\ res[5] # None
    /\ Others # {}
    /\ res[1] # <<>>
    /\ res[4] # <<>>

(***************************************************************************)
(* C8 (as amended): when several successors of the root carry the move of  *)
(* interest, get_subtree_data returns the last of them in successor        *)
(* iteration order.                                                        *)
(***************************************************************************)
C8_LastMatchReturned ==
    (Extracted /\ MatchingAt # {}) =>
        res[5] = G.succ[root][SetMax(MatchingAt)]

\* C8 as stated: the first matching successor is returned.
C8_FirstMatchReturned ==
    (Extracted /\ MatchingAt # {}) =>
        res[5] = G.succ[root][SetMin(MatchingAt)]

C8_Witness ==
    /\ Extracted
    /\ Cardinality(MatchingAt) >= 2

(***************************************************************************)
(* C9: move_is_best is true exactly when the move of interest was found    *)
(* among the successors of root and its Q is at least the Q of every       *)
(* successor; it is false when the move was not found.                     *)
(***************************************************************************)
C9_MoveIsBest ==
    Extracted =>
        /\ res[5] # None <=> Matching # {}
        /\ res[5] # None => res[5] \in Matching
        /\ res[15] <=>
             /\ res[5] # None
             /\ \A s \in Succs : G.Q[res[5]] >= G.Q[s]

C9_Witness ==
    /\ Extracted
    /\ res[15]
    /\ Cardinality(Succs) >= 2
    /\ \E s \in Succs : s # res[5] /\ G.Q[s] = G.Q[res[5]]

(***************************************************************************)
(* C10: the width profile partitions the nodes reachable from root (root   *)
(* included) by shortest-path distance: width[d] is the number of nodes at *)
(* distance exactly d, and the widths add up to the number of reachable    *)
(* nodes.                                                                  *)
(***************************************************************************)
C10_WidthPartition ==
    Extracted =>
        LET width == res[13]
        IN  /\ Cardinality(DictKeys(width)) = Len(width)
            /\ DictKeys(width) = { Distance(v) : v \in Reachable }
            /\ \A d \in DictKeys(width) :
                 DictGet(width, d, 0) =
                     Cardinality({ v \in Reachable : Distance(v) = d })
            /\ SeqSum(DictValues(width)) = Cardinality(Reachable)

\* A node reachable both by one edge and by two: the shortest distance decides.
C10_Witness ==
    /\ Extracted
    /\ \E v \in WalkEnds(1) : v \in WalkEnds(2) /\ v # root
    /\ Len(res[13]) >= 2

(***************************************************************************)
(* C11: get_subtree_data returns for every subtree geometry; the branching *)
(* factor is (number of descendants of root, root excluded, minus 1) over  *)
(* the number of those descendants with out-degree 0 and in-degree 1, and  *)
(* it is -1 exactly when that number of leaves is zero, in particular for  *)
(* a root without successors.                                              *)
(***************************************************************************)
Desc == Reachable \ {root}
Leaves == { x \in Desc : OutDegree(G, x) = 0 /\ InDegree(G, x) = 1 }

C11_BranchingFactor ==
    Extracted =>
        /\ Len(res) = 15
        /\ res[12] = Num(-1) <=> Leaves = {}
        /\ Leaves # {} =>
             res[12] = (Num(Cardinality(Desc) - 1)) \div Cardinality(Leaves)
        /\ Succs = {} => res[12] = Num(-1)

\* Descendants exist, but none is a leaf of in-degree 1 (a transposition or a
\* cycle): the division by zero is caught.
C11_Witness ==
    /\ Extracted
    /\ Desc # {}
    /\ Leaves = {}
    /\ \E x \in Desc : OutDegree(G, x) = 0
    /\ res[12] = Num(-1)

(***************************************************************************)
(* C12: whatever the height of the subtree, heights above 7 included,      *)
(* feature_transform returns 22 entries; entries 11..17 are the widths at  *)
(* depth 1..7, 0 for an absent depth; entries 18..20 are the mean, std and *)
(* max of the width list, depth 0 included, padded with zeros to a length  *)
(* of 8; for a height of at most 7 the mean times 8 is the number of       *)
(* reachable nodes.                                                        *)
(***************************************************************************)
WidthAt(d) == Cardinality({ v \in Reachable : Distance(v) = d })
Depth == SetMax({ Distance(v) : v \in Reachable })
PaddedProfile ==
    [k \in 1..(IF Depth + 1 > 8 THEN Depth + 1 ELSE 8) |-> Num(WidthAt(k - 1))]

C12_WidthEntries ==
    Transformed =>
        /\ Len(feat) = NumFeat
        /\ \A d \in 1..7 : feat[11 + d] = Num(WidthAt(d))
        /\ feat[19] = NpMean(PaddedProfile)
        /\ feat[20] = NpStd(PaddedProfile)
        /\ feat[21] = NpMax(PaddedProfile)
        /\ res[14] <= 7 => feat[19] * 8 = Num(Cardinality(Reachable))

\* A subtree of height above 7 with two nodes at one depth, transformed.
C12_Witness ==
    /\ Transformed
    /\ res[14] > 7
    /\ Len(res[13]) > 8
    /\ \E d \in 1..7 : WidthAt(d) = 2

(***************************************************************************)
(* C17: every extraction returns width[0] = 1 and a height of at least 0,  *)
(* which is 0 exactly when the root has no successors; the height is never *)
(* the sentinel -1.                                                        *)
(***************************************************************************)
C17_HeightNeverSentinel ==
    Extracted =>
        /\ DictGet(res[13], 0, 0) = 1
        /\ res[14] >= 0
        /\ res[14] # -1
        /\ res[14] = 0 <=> Succs = {}

\* An extraction at a node without successors and one at a node with a subtree
\* of two levels below it.
C17_Witness ==
    /\ Extracted
    /\ \/ Succs = {} /\ res[14] = 0 /\ root # 0
       \/ res[14] = 2 /\ DictGet(res[13], 0, 0) = 1


(***************************************************************************)
(* get_data(G, uci): the parent extraction, the extraction at the move of  *)
(* interest (None when the move is not in the tree) and, for each of the   *)
(* four move subsets of the parent, the extractions at its members.        *)
(***************************************************************************)
get_data(Gr, u) ==
    LET parent_data == get_subtree_data(Gr, u, 0)
        moi == IF parent_data[5] = None THEN <<None>>
               ELSE get_subtree_data(Gr, u, parent_data[5])
        SubsetData(subset) ==
            [k \in 1..Len(subset) |-> get_subtree_data(Gr, u, subset[k])]
    IN  <<parent_data, moi,
          SubsetData(parent_data[1]), SubsetData(parent_data[2]),
          SubsetData(parent_data[3]), SubsetData(parent_data[4])>>

(***************************************************************************)
(* parse_trees: the features of one tree (lines 226-251).                  *)
(***************************************************************************)
\* Faulty variant: -1 at the branching factor and the height.
defaults_bf_height ==
    Zeros(10) \o <<Num(-1)>> \o Zeros(10) \o <<Num(-1)>>

\* Line 205.
defaults ==
    Zeros(4) \o <<Num(-1)>> \o Zeros(2) \o <<Num(-1)>> \o Zeros(3)
    \o Zeros(10) \o Zeros(1)

Column(vs, j) == [k \in 1..Len(vs) |-> vs[k][j]]

\* Faulty variant: min before max.
AggregateSubset_min_max(vs) ==
    << [j \in 1..NumFeat |-> NpMean(Column(vs, j))],
       [j \in 1..NumFeat |-> NpStd(Column(vs, j))],
       [j \in 1..NumFeat |-> NpMin(Column(vs, j))],
       [j \in 1..NumFeat |-> NpMax(Column(vs, j))] >>

\* Lines 243-247: the mean, std, max and min over axis 0.
AggregateSubset(vs) ==
    << [j \in 1..NumFeat |-> NpMean(Column(vs, j))],
       [j \in 1..NumFeat |-> NpStd(Column(vs, j))],
       [j \in 1..NumFeat |-> NpMax(Column(vs, j))],
       [j \in 1..NumFeat |-> NpMin(Column(vs, j))] >>

\* Faulty variant: an empty subset gives four all-zero vectors.
SubsetFeatures_zeros(subset) ==
    IF Len(subset) = 0
    THEN <<Zeros(NumFeat), Zeros(NumFeat), Zeros(NumFeat), Zeros(NumFeat)>>
    ELSE AggregateSubset([k \in 1..Len(subset) |-> feature_transform(subset[k])])

\* Lines 237-247 for one subset: four vectors.
SubsetFeatures(subset) ==
    IF Len(subset) = 0 THEN <<defaults, defaults, defaults, defaults>>
    ELSE AggregateSubset([k \in 1..Len(subset) |-> feature_transform(subset[k])])

\* Lines 228-247: the list features.
TreeFeatures(tree_data) ==
    LET move_in_tree == tree_data[1][5] # None
    IN  <<BoolNum(move_in_tree), BoolNum(tree_data[1][15]),
          feature_transform(tree_data[1]),
          IF move_in_tree THEN feature_transform(tree_data[2]) ELSE defaults>>
        \o SubsetFeatures(tree_data[3]) \o SubsetFeatures(tree_data[4])
        \o SubsetFeatures(tree_data[5]) \o SubsetFeatures(tree_data[6])

RECURSIVE Extend(_, _)
Extend(row, vectors) ==
    IF vectors = <<>> THEN row
    ELSE Extend(row \o Head(vectors), Tail(vectors))

\* Lines 248-251: the row after the features of one tree are added.
AppendTree(row, features) ==
    Extend(row \o <<features[1], features[2]>>, Slice(features, 2, Len(features)))


(***************************************************************************)
(* The files parse_trees reads.  The game trees on disk are taken from a   *)
(* small library; Q and P are given in tenths.                             *)
(***************************************************************************)
Tree(succ, Q, N, P, hasP, move) ==
    [n |-> Len(Q),
     succ |-> [u \in 0..(Len(Q) - 1) |-> succ[u + 1]],
     Q |-> [i \in 0..(Len(Q) - 1) |-> Tenths(Q[i + 1])],
     N |-> [i \in 0..(Len(Q) - 1) |-> Num(N[i + 1])],
     P |-> [i \in 0..(Len(Q) - 1) |-> Tenths(P[i + 1])],
     hasP |-> hasP,
     move |-> [i \in 1..(Len(Q) - 1) |-> move[i + 1]]]

Library ==
    << \* root Q=-0.2 with e2e4 (Q=0.3, N=5, P=0.6) and d2d4 (Q=-0.1, N=3, P=0.3)
       Tree(<< <<1, 2>>, <<3>>, <<4>>, <<>>, <<>> >>,
            <<-2, 3, -1, -3, 1>>, <<5, 5, 3, 2, 1>>, <<0, 6, 3, 5, 4>>, FALSE,
            <<"", "e2e4", "d2d4", "e7e5", "d7d5">>),
       \* neither e2e4 nor d2d4 explored; two improving moves, one losing
       Tree(<< <<1, 2, 3>>, <<4>>, <<>>, <<>>, <<>> >>,
            <<1, 3, -3, 2, -2>>, <<4, 2, 1, 1, 1>>, <<0, 5, 2, 3, 7>>, TRUE,
            <<"", "c2c4", "g1f3", "b1c3", "e7e5">>),
       \* the root alone
       Tree(<< <<>> >>, <<0>>, <<1>>, <<0>>, FALSE, <<"">>),
       \* a transposition: node 3 is reached through e2e4 and through d2d4
       Tree(<< <<2, 1>>, <<3>>, <<3>>, <<4>>, <<>> >>,
            <<1, -1, 3, 2, -2>>, <<5, 2, 2, 1, 1>>, <<10, 5, 4, 9, 8>>, TRUE,
            <<"", "e2e4", "d2d4", "e7e5", "g1f3">>) >>

MaxMoves == 2
Slots == (0..(NumWeights - 1)) \X (1..NumTrees)
StatsFiles == {"unit", "centered", "missing", "single_mean", "short"}

\* The files, named by a few parameters:
\*   n         the number of move folders under moves_dir,
\*   g0        which library tree is stored where,
\*   bad       <<>>, or the one tree file <<move, wi, tree_num>> that is
\*             missing (glob finds nothing) or malformed (read_gml raises),
\*   stats     which statistics shared/mean.csv and shared/std.csv hold:
\*             3980 values each ("unit", "centered"), no file ("missing"),
\*             a single mean and 3980 stds ("single_mean"), or the values of
\*             one tree fewer ("short"),
\*   training  the training argument (class.txt is read).
FileSystems ==
    { f \in [n : 1..MaxMoves, g0 : 0..1,
             bad : {<<>>} \cup ((0..(MaxMoves - 1)) \X (0..(NumWeights - 1))
                                \X (1..NumTrees)),
             stats : StatsFiles, training : BOOLEAN] :
        /\ f.bad # <<>> => f.bad[1] < f.n
        /\ f.stats \notin {"unit", "centered"} => (~f.training /\ f.g0 = 0) }

uci_txt(f, move_num) == IF move_num % 2 = 0 THEN "e2e4" ELSE "d2d4"
class_txt(f, move_num) == move_num % 3

\* Whether trees/<weight>/<move>/tree_<wi>_<tree_num>.gml exists and parses.
TreeLoads(f, move_num, wi, tree_num) ==
    ~(f.bad # <<>> /\ f.bad[1] = move_num /\ f.bad[2] = wi /\ f.bad[3] = tree_num)

tree_gml(f, move_num, wi, tree_num) ==
    Library[((f.g0 + move_num + wi * NumTrees + tree_num) % Len(Library)) + 1]

\* Whether np.genfromtxt finds shared/mean.csv and shared/std.csv.
StatsExist(f) == f.stats # "missing"

\* np.genfromtxt of a file: the values; a single value is a 0-d array, here a
\* sequence of length 1.
mean_csv(f) ==
    CASE f.stats = "unit" -> [c \in 1..RowLen |-> Num(0)]
      [] f.stats = "centered" -> [c \in 1..RowLen |-> Num(1)]
      [] f.stats = "single_mean" -> <<Num(1)>>
      [] f.stats = "short" -> [c \in 1..(RowLen - BlockLen) |-> Num(1)]
      [] OTHER -> <<>>

std_csv(f) ==
    CASE f.stats = "unit" -> [c \in 1..RowLen |-> Num(1)]
      [] f.stats = "centered" ->
            [c \in 1..RowLen |-> IF c % 2 = 1 THEN Num(0) ELSE Num(2)]
      [] f.stats = "single_mean" -> [c \in 1..RowLen |-> Num(2)]
      [] f.stats = "short" -> [c \in 1..(RowLen - BlockLen) |-> Num(2)]
      [] OTHER -> <<>>

(***************************************************************************)
(* Lines 257-261: np.array(X), X - mean, and the division of the columns   *)
(* whose std is positive.                                                  *)
(***************************************************************************)
\* np.array(X) is a matrix when all rows have one length.
Rectangular(rows) == \A r \in 1..Len(rows) : Len(rows[r]) = Len(rows[1])

\* numpy broadcasts a row of length L with a vector of length M when they
\* agree or one of them is 1.
Broadcasts(L, M) == L = M \/ L = 1 \/ M = 1
BroadLen(L, M) == IF L >= M THEN L ELSE M
At(v, c) == IF Len(v) = 1 THEN v[1] ELSE v[c]

\* np.array on ragged rows, X - mean on shapes that do not broadcast, a
\* boolean mask std>0 of another length than the columns; a 0-d std that is
\* not positive selects nothing and its division does not broadcast.
NormalizeRaises(rows, mean, std) ==
    \/ ~Rectangular(rows)
    \/ ~Broadcasts(Len(rows[1]), Len(mean))
    \/ Len(std) # 1 /\ Len(std) # BroadLen(Len(rows[1]), Len(mean))
    \/ Len(std) = 1 /\ std[1] <= 0

\* Faulty variant: a column with std 0 keeps its raw value.
Scaled_raw_when_zero(x, m, sd) == IF sd > 0 THEN Quot(x - m, sd) ELSE x

\* One entry: X - mean, divided by std where std > 0.
Scaled(x, m, sd) == IF sd > 0 THEN Quot(x - m, sd) ELSE x - m

Normalize(rows, mean, std) ==
    [r \in 1..Len(rows) |->
        [c \in 1..BroadLen(Len(rows[1]), Len(mean)) |->
            Scaled(At(rows[r], c), At(mean, c), At(std, c))]]

(***************************************************************************)
(* parse_trees(moves_dir, training), one step per loop iteration.          *)
(***************************************************************************)
At_(where, m, wi, tree_num) ==
    [at |-> where, move_num |-> m, wi |-> wi, tree_num |-> tree_num]

InitParse ==
    /\ fs \in FileSystems
    /\ pc = At_("move", 0, 0, 1)
    /\ X = <<>>
    /\ y = <<>>
    /\ ret = Idle
    /\ pending = Idle /\ offsets = Idle /\ calls = Idle /\ last = Idle
    /\ G = Idle /\ uci = Idle /\ root = Idle /\ res = Idle /\ feat = Idle
    /\ args = Idle /\ gen = Idle /\ lc0 = Idle /\ cwd = Idle /\ hist = Idle
    /\ game = Idle /\ walk = Idle

\* Lines 207-214: a new row, the label and the move of interest.
StartMove ==
    /\ pc.at = "move"
    /\ X' = Append(X, <<>>)
    /\ y' = IF fs.training THEN Append(y, class_txt(fs, pc.move_num)) ELSE y
    /\ pc' = At_("tree", pc.move_num, 0, 1)
    /\ UNCHANGED <<fs, ret, indexVars, treeVars, genVars, pgnVars>>

\* The next iteration of the loops of lines 207, 215 and 217.
AfterTree ==
    IF pc.tree_num < NumTrees THEN At_("tree", pc.move_num, pc.wi, pc.tree_num + 1)
    ELSE IF pc.wi < NumWeights - 1 THEN At_("tree", pc.move_num, pc.wi + 1, 1)
    ELSE IF pc.move_num < fs.n - 1 THEN At_("move", pc.move_num + 1, 0, 1)
    ELSE At_("normalize", pc.move_num, pc.wi, pc.tree_num)

\* Lines 219-251: the tree is read and its features are added to the row.
LoadTree ==
    /\ pc.at = "tree"
    /\ TreeLoads(fs, pc.move_num, pc.wi, pc.tree_num)
    /\ LET Gr == tree_gml(fs, pc.move_num, pc.wi, pc.tree_num)
           tree_data == get_data(Gr, uci_txt(fs, pc.move_num))
       IN  X' = [X EXCEPT ![Len(X)] = AppendTree(@, TreeFeatures(tree_data))]
    /\ pc' = AfterTree
    /\ UNCHANGED <<fs, y, ret, indexVars, treeVars, genVars, pgnVars>>

\* Lines 252-255: reading the tree raised; the iteration is abandoned.
BadTree ==
    /\ pc.at = "tree"
    /\ ~TreeLoads(fs, pc.move_num, pc.wi, pc.tree_num)
    /\ pc' = AfterTree
    /\ UNCHANGED <<fs, X, y, ret, indexVars, treeVars, genVars, pgnVars>>

\* Lines 257-265: the rows are normalized and returned.
Return ==
    /\ pc.at = "normalize"
    /\ StatsExist(fs)
    /\ ~NormalizeRaises(X, mean_csv(fs), std_csv(fs))
    /\ ret' = [X |-> Normalize(X, mean_csv(fs), std_csv(fs)),
               y |-> IF fs.training THEN y ELSE None]
    /\ pc' = [pc EXCEPT !.at = "done"]
    /\ UNCHANGED <<fs, X, y, indexVars, treeVars, genVars, pgnVars>>

\* Lines 257-261: numpy raises on rows of different or wrong length, and
\* np.genfromtxt raises on a file that does not exist.
Raise ==
    /\ pc.at = "normalize"
    /\ ~StatsExist(fs) \/ NormalizeRaises(X, mean_csv(fs), std_csv(fs))
    /\ pc' = [pc EXCEPT !.at = "raised"]
    /\ UNCHANGED <<fs, X, y, ret, indexVars, treeVars, genVars, pgnVars>>

Next == StartMove \/ LoadTree \/ BadTree \/ Return \/ Raise

Spec == InitParse /\ [][Next]_vars


(***************************************************************************)
(* What the claims about parse_trees speak of.                             *)
(***************************************************************************)
MoveNums == 0..(fs.n - 1)
RowsBuilt == pc.at \in {"normalize", "done", "raised"}
AllLoad(m) == \A sl \in Slots : TreeLoads(fs, m, sl[1], sl[2])
SlotRank(wi, tree_num) == wi * NumTrees + (tree_num - 1)

\* Where the features of a tree that loaded start in the row of its move: each
\* tree that loaded before it in the move added BlockLen entries.
BlockStart(m, wi, tree_num) ==
    BlockLen * Cardinality({ sl \in Slots :
        /\ SlotRank(sl[1], sl[2]) < SlotRank(wi, tree_num)
        /\ TreeLoads(fs, m, sl[1], sl[2]) })

MoveFound(Gr, u) == \E c \in SuccSet(Gr, 0) : Gr.move[c] = u

\* Aggregation a (0 mean, 1 std, 2 max, 3 min) over the transformed vectors of
\* the subtrees rooted at the members of a move subset.
SubsetVectors(Gr, u, members) ==
    [k \in 1..Len(members) |->
        feature_transform(get_subtree_data(Gr, u, members[k]))]

ExpectedAgg(Gr, u, members, a) ==
    IF members = <<>> THEN defaults
    ELSE LET vs == SubsetVectors(Gr, u, members)
         IN  [j \in 1..NumFeat |->
                CASE a = 0 -> NpMean(Column(vs, j))
                  [] a = 1 -> NpStd(Column(vs, j))
                  [] a = 2 -> NpMax(Column(vs, j))
                  [] a = 3 -> NpMin(Column(vs, j))]

\* The entries of row from offset `from` on are the features of tree Gr, each
\* at the offset index_flat gives it in block (wi, tree).
SlotAgrees(row, from, wi, tree, Gr, u) ==
    LET parent == get_subtree_data(Gr, u, 0)
        pvec == feature_transform(parent)
        mvec == IF parent[5] = None THEN defaults
                ELSE feature_transform(get_subtree_data(Gr, u, parent[5]))
        E(i, s, a) == row[from + index_flat(wi, tree, i, s, a) + 1]
    IN  /\ E(0, None, 0) = BoolNum(MoveFound(Gr, u))
        /\ E(1, None, 0) = BoolNum(parent[15])
        /\ \A i \in 0..(NumFeat - 1) :
             /\ E(i, 0, 0) = pvec[i + 1]
             /\ E(i, 1, 0) = mvec[i + 1]
        /\ \A s \in 2..(NumSubsets + 1), a \in 0..(NumAggs - 1) :
             LET vec == ExpectedAgg(Gr, u, parent[s - 1], a)
             IN  \A i \in 0..(NumFeat - 1) : E(i, s, a) = vec[i + 1]

SlotIsZero(row, wi, tree) ==
    \A k \in BlockOffsets(wi, tree) : k + 1 <= Len(row) /\ row[k + 1] = 0

(***************************************************************************)
(* C2 (as stated): when a tree file of a move is missing or fails to       *)
(* parse, the batch completes without raising, the move's row has 3980     *)
(* entries, the failed tree's 398 entries are zero and every other tree's  *)
(* features are at the offsets index_flat assigns to them.                 *)
(***************************************************************************)
C2_BadTreeLeavesZeroSlot ==
    RowsBuilt =>
        /\ pc.at # "raised"
        /\ \A m \in MoveNums :
             /\ Len(X[m + 1]) = RowLen
             /\ \A sl \in Slots :
                  IF TreeLoads(fs, m, sl[1], sl[2])
                  THEN SlotAgrees(X[m + 1], 0, sl[1], sl[2] - 1,
                                  tree_gml(fs, m, sl[1], sl[2]), uci_txt(fs, m))
                  ELSE SlotIsZero(X[m + 1], sl[1], sl[2] - 1)

(***************************************************************************)
(* C3 (as amended): normalization subtracts the mean from every column,    *)
(* and divides by std the columns whose std is positive; a column whose    *)
(* std is 0 is left undivided, x - mean (mean 1, std 0, input 5 gives 4).  *)
(***************************************************************************)
C3_ZeroStdColumnCentered ==
    pc.at = "done" =>
        LET mean == mean_csv(fs)
            std == std_csv(fs)
        IN  \A r \in 1..Len(X) : \A c \in 1..Len(X[r]) :
              ret.X[r][c] = IF At(std, c) > 0
                            THEN Quot(X[r][c] - At(mean, c), At(std, c))
                            ELSE X[r][c] - At(mean, c)

\* C3 as stated: a column whose std is 0 keeps the raw input value.
C3_ZeroStdColumnRaw ==
    pc.at = "done" =>
        LET mean == mean_csv(fs)
            std == std_csv(fs)
        IN  \A r \in 1..Len(X) : \A c \in 1..Len(X[r]) :
              ret.X[r][c] = IF At(std, c) > 0
                            THEN Quot(X[r][c] - At(mean, c), At(std, c))
                            ELSE X[r][c]

\* The example of the claim: input 5 under mean 1 and std 0, and under mean 1
\* and std 2.
C3_Witness ==
    /\ pc.at = "done"
    /\ \E r \in 1..Len(X) : \E c, d \in 1..Len(X[r]) :
         /\ X[r][c] = Num(5)
         /\ At(mean_csv(fs), c) = Num(1) /\ At(std_csv(fs), c) = Num(0)
         /\ ret.X[r][c] = Num(4)
         /\ X[r][d] = Num(5)
         /\ At(mean_csv(fs), d) = Num(1) /\ At(std_csv(fs), d) = Num(2)
         /\ ret.X[r][d] = Num(2)

(***************************************************************************)
(* C5 (as amended): the default 22-vector that parse_trees puts in place   *)
(* of an absent move-of-interest subtree or of an empty move subset is 0   *)
(* in every position except the max_Q position (index 4) and the root_Q    *)
(* position (index 7), which are -1.                                       *)
(***************************************************************************)
SubstitutedVectorsAre(sentinel) ==
    RowsBuilt =>
        \A m \in MoveNums : \A sl \in Slots :
            TreeLoads(fs, m, sl[1], sl[2]) =>
                LET Gr == tree_gml(fs, m, sl[1], sl[2])
                    parent == get_subtree_data(Gr, uci_txt(fs, m), 0)
                    from == BlockStart(m, sl[1], sl[2])
                    Vec(s, a) == [i \in 1..NumFeat |->
                        X[m + 1][from + index_flat(0, 0, i - 1, s, a) + 1]]
                IN  /\ ~MoveFound(Gr, uci_txt(fs, m)) => Vec(1, 0) = sentinel
                    /\ \A s \in 2..(NumSubsets + 1) :
                         parent[s - 1] = <<>> =>
                            \A a \in 0..(NumAggs - 1) : Vec(s, a) = sentinel

SentinelQ ==
    [j \in 1..NumFeat |-> IF j - 1 \in {4, 7} THEN Num(-1) ELSE Num(0)]

SentinelBfHeight ==
    [j \in 1..NumFeat |-> IF j - 1 \in {10, 21} THEN Num(-1) ELSE Num(0)]

C5_SentinelMaxQRootQ == SubstitutedVectorsAre(SentinelQ)

\* C5 as stated: the -1 entries are the branching factor and the height.
C5_SentinelBfHeight == SubstitutedVectorsAre(SentinelBfHeight)

\* A tree without the move of interest and with an empty subset, after a tree
\* of the same move that did not load.
C5_Witness ==
    /\ RowsBuilt
    /\ \E m \in MoveNums : \E sl \in Slots :
         /\ TreeLoads(fs, m, sl[1], sl[2])
         /\ BlockStart(m, sl[1], sl[2]) < BlockLen * SlotRank(sl[1], sl[2])
         /\ ~MoveFound(tree_gml(fs, m, sl[1], sl[2]), uci_txt(fs, m))
         /\ get_subtree_data(tree_gml(fs, m, sl[1], sl[2]), uci_txt(fs, m), 0)[3]
              = <<>>

(***************************************************************************)
(* C6: for a move all of whose ten trees load, the row has length 3980 and *)
(* holds, at the offsets index_flat gives, the two presence flags (move    *)
(* found, move is best), the parent and move-of-interest vectors, and for  *)
(* each subset (improving, advantageous, losing, disadvantageous) the      *)
(* mean, std, max and min vectors.                                         *)
(***************************************************************************)
C6_RowAgreesWithIndexFlat ==
    RowsBuilt =>
        \A m \in MoveNums :
            AllLoad(m) =>
                /\ Len(X[m + 1]) = RowLen
                /\ \A sl \in Slots :
                     SlotAgrees(X[m + 1], 0, sl[1], sl[2] - 1,
                                tree_gml(fs, m, sl[1], sl[2]), uci_txt(fs, m))

\* Two moves whose trees all load, one of them with a subset of two moves.
C6_Witness ==
    /\ RowsBuilt
    /\ fs.n = 2
    /\ \A m \in MoveNums : AllLoad(m) /\ Len(X[m + 1]) = RowLen
    /\ \E m \in MoveNums : \E sl \in Slots :
         Len(get_subtree_data(tree_gml(fs, m, sl[1], sl[2]),
                              uci_txt(fs, m), 0)[1]) >= 2

(***************************************************************************)
(* C13: for each of the four move subsets of the parent extraction of a    *)
(* tree that loaded, the row holds, in the order mean, std, max, min, four *)
(* 22-vectors: four times the default vector when the subset is empty,     *)
(* otherwise the elementwise mean, std, max and min of the transformed     *)
(* vectors of the subtrees rooted at the members of the subset.            *)
(***************************************************************************)
IsMean(col, v) ==
    Len(col) * v <= SeqSum(col) /\ SeqSum(col) < Len(col) * (v + 1)
IsStd(col, v) ==
    LET n == Len(col)
        var == n * SeqSum([k \in 1..n |-> col[k] * col[k]])
               - SeqSum(col) * SeqSum(col)
    IN  n * v <= ISqrt(var) /\ ISqrt(var) < n * (v + 1)
IsMax(col, v) == v \in SeqSet(col) /\ \A z \in SeqSet(col) : z <= v
IsMin(col, v) == v \in SeqSet(col) /\ \A z \in SeqSet(col) : z >= v

\* The k-th (0-based) 22-vector after the two flags of the block at `from`.
VectorAt(row, from, k) ==
    [j \in 1..NumFeat |-> row[from + 2 + k * NumFeat + j]]

SubsetBlockAgrees(row, from, Gr, u) ==
    LET parent == get_subtree_data(Gr, u, 0)
    IN  \A s \in 1..NumSubsets :
          LET members == parent[s]
              vs == SubsetVectors(Gr, u, members)
              out(a) == VectorAt(row, from, 2 + (s - 1) * NumAggs + a)
          IN  IF members = <<>>
              THEN \A a \in 0..(NumAggs - 1) : out(a) = defaults
              ELSE \A j \in 1..NumFeat :
                     /\ IsMean(Column(vs, j), out(0)[j])
                     /\ IsStd(Column(vs, j), out(1)[j])
                     /\ IsMax(Column(vs, j), out(2)[j])
                     /\ IsMin(Column(vs, j), out(3)[j])

C13_SubsetAggregates ==
    RowsBuilt =>
        \A m \in MoveNums : \A sl \in Slots :
            TreeLoads(fs, m, sl[1], sl[2]) =>
                SubsetBlockAgrees(X[m + 1], BlockStart(m, sl[1], sl[2]),
                                  tree_gml(fs, m, sl[1], sl[2]), uci_txt(fs, m))

\* A tree with an empty subset and a tree with a subset of two members whose
\* subtrees differ in size.
C13_Witness ==
    /\ RowsBuilt
    /\ \E m \in MoveNums : \E sl \in Slots :
         /\ TreeLoads(fs, m, sl[1], sl[2])
         /\ get_subtree_data(tree_gml(fs, m, sl[1], sl[2]), uci_txt(fs, m), 0)[1]
              = <<>>
    /\ \E m \in MoveNums : \E sl \in Slots :
         /\ TreeLoads(fs, m, sl[1], sl[2])
         /\ LET Gr == tree_gml(fs, m, sl[1], sl[2])
                members == get_subtree_data(Gr, uci_txt(fs, m), 0)[1]
            IN  /\ Len(members) = 2
                /\ OutDegree(Gr, members[1]) # OutDegree(Gr, members[2])

(***************************************************************************)
(* C14 (as stated): parse_trees raises, returning no dataset, whenever     *)
(* shared/mean.csv or shared/std.csv is missing or holds a number of       *)
(* values other than 3980; no statistics vector of another length, length  *)
(* 1 included, is applied.                                                 *)
(***************************************************************************)
StatsWellFormed ==
    /\ StatsExist(fs)
    /\ Len(mean_csv(fs)) = RowLen
    /\ Len(std_csv(fs)) = RowLen

C14_BadStatsRejected ==
    /\ pc.at = "done" => StatsWellFormed
    /\ pc.at = "raised" => ret = Idle

(***************************************************************************)
(* generate_trees(weight_files, moves_dir, attempts_per_move, reset_limit, *)
(* timeout), generate_trees.py lines 36-121, next to the Lc0 process it    *)
(* starts.  The script and the process share the pipe p.stdin and the file *)
(* tree.gml of the working directory; they run concurrently, so a step of  *)
(* the process may come between any two steps of the script.               *)
(*                                                                         *)
(* A request is named <<w, move, nodes, tries>> after the attempt that     *)
(* wrote it to p.stdin.  A file is the request whose tree it holds and its *)
(* size in chunks; a tree is complete at FullSize chunks.  The timeout is  *)
(* counted in polls of sleep_time seconds.                                 *)
(***************************************************************************)
MaxGenMoves == 2
FullSize == 2
ResetLimits == 1..2
Attempts == 1..2
Timeouts == 2..3
WeightFiles == 1..2

NoFile == [exists |-> FALSE, req |-> <<>>, size |-> 0]
File(req, size) == [exists |-> TRUE, req |-> req, size |-> size]
NoJob == [busy |-> FALSE, req |-> <<>>, into |-> "none"]
Job(req, into) == [busy |-> TRUE, req |-> req, into |-> into]

\* Popen(lc0_settings, ...): a fresh process; served counts the moves whose
\* processing began while it was the process p.
Popen == [alive |-> TRUE, served |-> 0, stdin |-> <<>>, job |-> NoJob]
NoProcess == [alive |-> FALSE, served |-> 0, stdin |-> <<>>, job |-> NoJob]

\* Line 79.
out_path(w, move, nodes) == <<w, move, nodes>>

\* The arguments, the number of move folders and the trees that exist before
\* the call; two weight files are run on one move folder.
GenArgs ==
    { a \in [weight_files : WeightFiles, nmoves : 1..MaxGenMoves,
              attempts_per_move : Attempts, reset_limit : ResetLimits,
              timeout : Timeouts, existing : {{}, {out_path(0, 0, 1)}}] :
        a.weight_files > 1 => (a.nmoves = 1 /\ a.existing = {}) }

Locals(at, w, move, nodes, tries, timer, prev_size, success, move_count) ==
    [at |-> at, w |-> w, move |-> move, nodes |-> nodes, tries |-> tries,
     timer |-> timer, prev_size |-> prev_size, success |-> success,
     move_count |-> move_count]

\* Lines 47-53: the moves are listed and a tree.gml left in the working
\* directory is removed.
InitGen ==
    /\ args \in GenArgs
    /\ gen = Locals("weight", 0, 0, 1, 0, 0, -1, FALSE, 0)
    /\ lc0 = [p |-> NoProcess, old |-> NoProcess]
    /\ cwd = NoFile
    /\ hist = [stored |-> [any |-> FALSE, by |-> <<>>, file |-> NoFile],
               reset |-> [any |-> FALSE, served |-> 0],
               timeouts |-> FALSE]
    /\ pending = Idle /\ offsets = Idle /\ calls = Idle /\ last = Idle
    /\ G = Idle /\ uci = Idle /\ root = Idle /\ res = Idle /\ feat = Idle
    /\ fs = Idle /\ pc = Idle /\ X = Idle /\ y = Idle /\ ret = Idle
    /\ game = Idle /\ walk = Idle

\* Lines 55-62: the next weight file gets a new process; the process of the
\* weight before is not killed and keeps running.
NextWeight ==
    /\ gen.at = "weight"
    /\ IF gen.w < args.weight_files
       THEN /\ lc0' = [p |-> Popen, old |-> lc0.p]
            /\ gen' = [gen EXCEPT !.at = "move", !.move = 0, !.move_count = 0]
       ELSE /\ gen' = [gen EXCEPT !.at = "done"]
            /\ lc0' = lc0
    /\ UNCHANGED <<args, cwd, hist, indexVars, treeVars, parseVars, pgnVars>>

\* Lines 63-75: the next move; every reset_limit-th count the process is
\* killed and replaced before the move is processed.
NextMove ==
    /\ gen.at = "move"
    /\ IF gen.move >= args.nmoves
       THEN /\ gen' = [gen EXCEPT !.at = "weight", !.w = @ + 1]
            /\ UNCHANGED <<lc0, hist>>
       ELSE LET move_count == gen.move_count + 1
                reset == move_count % args.reset_limit = 0
                proc == IF reset THEN Popen ELSE lc0.p
            IN  /\ lc0' = [lc0 EXCEPT !.p = [proc EXCEPT !.served = @ + 1]]
                /\ hist' = IF reset
                           THEN [hist EXCEPT !.reset = [any |-> TRUE,
                                                        served |-> lc0.p.served]]
                           ELSE hist
                /\ gen' = [gen EXCEPT !.at = "nodes", !.nodes = 1,
                                      !.move_count = IF reset THEN 0
                                                     ELSE move_count]
    /\ UNCHANGED <<args, cwd, indexVars, treeVars, parseVars, pgnVars>>

\* Lines 77-81 and 115-117: the next tree size, skipped when its file exists.
NextNodes ==
    /\ gen.at = "nodes"
    /\ gen' = IF gen.nodes > NumTrees
              THEN [gen EXCEPT !.at = "move", !.move = @ + 1]
              ELSE IF out_path(gen.w, gen.move, gen.nodes) \in args.existing
              THEN [gen EXCEPT !.nodes = @ + 1]
              ELSE [gen EXCEPT !.at = "attempt", !.tries = 0]
    /\ UNCHANGED <<args, lc0, cwd, hist, indexVars, treeVars, parseVars, pgnVars>>

\* Lines 81-92: the request of an attempt is written to p.stdin; when the
\* attempts are used up the move is given up (lines 115-117).
Attempt ==
    /\ gen.at = "attempt"
    /\ IF gen.tries >= args.attempts_per_move
       THEN /\ gen' = [gen EXCEPT !.at = "move", !.move = @ + 1]
            /\ lc0' = lc0
       ELSE /\ lc0' = [lc0 EXCEPT !.p.stdin =
                          Append(@, <<gen.w, gen.move, gen.nodes, gen.tries>>)]
            /\ gen' = [gen EXCEPT !.at = "poll", !.timer = 0,
                                  !.success = FALSE, !.prev_size = -1]
    /\ UNCHANGED <<args, cwd, hist, indexVars, treeVars, parseVars, pgnVars>>

\* Lines 93-102: one sleep and one look at tree.gml.
Poll ==
    /\ gen.at = "poll"
    /\ LET timer == gen.timer + 1
           success == cwd.exists /\ cwd.size = gen.prev_size
       IN  gen' = [gen EXCEPT
                     !.timer = timer,
                     !.success = success,
                     !.prev_size = IF cwd.exists THEN cwd.size ELSE @,
                     !.at = IF success \/ timer >= args.timeout
                            THEN "after" ELSE "poll"]
    /\ UNCHANGED <<args, lc0, cwd, hist, indexVars, treeVars, parseVars, pgnVars>>

\* A process that is writing the file that is renamed keeps writing into it;
\* what a process still writes into a file stored earlier is not followed.
Renamed(proc) ==
    IF proc.job.busy /\ proc.job.into = "cwd"
    THEN [proc EXCEPT !.job.into = "out"]
    ELSE IF proc.job.busy /\ proc.job.into = "out"
    THEN [proc EXCEPT !.job = NoJob]
    ELSE proc

\* Lines 104-110: tree.gml is moved to out_path.
Store ==
    /\ gen.at = "after"
    /\ gen.success
    /\ hist' = [hist EXCEPT !.stored =
                  [any |-> TRUE,
                   by |-> <<gen.w, gen.move, gen.nodes, gen.tries>>,
                   file |-> cwd]]
    /\ cwd' = NoFile
    /\ lc0' = [p |-> Renamed(lc0.p), old |-> Renamed(lc0.old)]
    /\ gen' = [gen EXCEPT !.at = "nodes", !.nodes = @ + 1]
    /\ UNCHANGED <<args, indexVars, treeVars, parseVars, pgnVars>>

\* Lines 111-114: after a timeout the process is killed and replaced; what it
\* wrote of tree.gml stays in the working directory.
Retry ==
    /\ gen.at = "after"
    /\ ~gen.success
    /\ lc0' = [lc0 EXCEPT !.p = Popen]
    /\ hist' = [hist EXCEPT !.timeouts = TRUE]
    /\ gen' = [gen EXCEPT !.at = "attempt", !.tries = @ + 1, !.move_count = 0]
    /\ UNCHANGED <<args, cwd, indexVars, treeVars, parseVars, pgnVars>>

\* The Lc0 process reads the next request from its stdin and searches.
EngineRead(slot) ==
    /\ lc0[slot].alive
    /\ ~lc0[slot].job.busy
    /\ lc0[slot].stdin # <<>>
    /\ lc0' = [lc0 EXCEPT ![slot].job = Job(Head(lc0[slot].stdin), "search"),
                          ![slot].stdin = Tail(@)]
    /\ UNCHANGED <<args, gen, cwd, hist, indexVars, treeVars, parseVars, pgnVars>>

\* The search is over: tree.gml is created, unless a tree.gml exists, which
\* blocks a new one from being generated (lines 49-53).
EngineCreate(slot) ==
    /\ lc0[slot].alive
    /\ lc0[slot].job.busy
    /\ lc0[slot].job.into = "search"
    /\ IF cwd.exists
       THEN /\ lc0' = [lc0 EXCEPT ![slot].job = NoJob]
            /\ cwd' = cwd
       ELSE /\ lc0' = [lc0 EXCEPT ![slot].job.into = "cwd"]
            /\ cwd' = File(lc0[slot].job.req, 1)
    /\ UNCHANGED <<args, gen, hist, indexVars, treeVars, parseVars, pgnVars>>

\* The process writes the next chunk of its tree, into tree.gml or into the
\* file tree.gml was renamed to.
EngineWrite(slot) ==
    /\ lc0[slot].alive
    /\ lc0[slot].job.busy
    /\ lc0[slot].job.into \in {"cwd", "out"}
    /\ LET file == IF lc0[slot].job.into = "cwd" THEN cwd ELSE hist.stored.file
           grown == [file EXCEPT !.size = @ + 1]
       IN  /\ lc0' = IF grown.size >= FullSize
                     THEN [lc0 EXCEPT ![slot].job = NoJob] ELSE lc0
           /\ IF lc0[slot].job.into = "cwd"
              THEN cwd' = grown /\ hist' = hist
              ELSE cwd' = cwd /\ hist' = [hist EXCEPT !.stored.file = grown]
    /\ UNCHANGED <<args, gen, indexVars, treeVars, parseVars, pgnVars>>

Engine ==
    \E slot \in {"p", "old"} :
        EngineRead(slot) \/ EngineCreate(slot) \/ EngineWrite(slot)

NextGen ==
    \/ NextWeight \/ NextMove \/ NextNodes \/ Attempt \/ Poll \/ Store \/ Retry
    \/ Engine

SpecGen == InitGen /\ [][NextGen]_vars

(***************************************************************************)
(* C15 (as stated): for one weight file and without timeouts, every        *)
(* process that is killed by the reset of lines 69-72, the first one       *)
(* included, has processed exactly reset_limit moves.                      *)
(***************************************************************************)
C15_EachProcessServesResetLimit ==
    (hist.reset.any /\ ~hist.timeouts) =>
        hist.reset.served = args.reset_limit

(***************************************************************************)
(* C16 (as stated): every file moved to its out_path holds the complete    *)
(* tree written for the request of the attempt that moves it, never a      *)
(* tree.gml left by an earlier request and never one still being written.  *)
(***************************************************************************)
C16_StoredIsOwnCompleteTree ==
    hist.stored.any =>
        /\ hist.stored.file.req = hist.stored.by
        /\ hist.stored.file.size = FullSize

(***************************************************************************)
(* moves_from_pgn(pgn_str, output_dir, variations, split), pgn_parser.py   *)
(* lines 7-51.  A game is its variation tree: node 0 is the game itself,   *)
(* node c > 0 the move played from node parent[c]; the variations of a     *)
(* node are its children in order, the first being the mainline move, and  *)
(* next() is the first variation, or None when there is none.              *)
(***************************************************************************)
MaxPgnNodes == 4
MaxGames == 2

GameTrees ==
    UNION { { [n |-> n, parent |-> q] : q \in ParentVectors(n) } :
            n \in 1..MaxPgnNodes }

\* chess.pgn GameNode.variations and GameNode.next().
variations_of(t, u) == SetToSeq({ c \in 1..(t.n - 1) : t.parent[c] = u })
next_of(t, u) ==
    IF variations_of(t, u) = <<>> THEN None ELSE Head(variations_of(t, u))

Walk(at, g, queue, moves, i, dirs) ==
    [at |-> at, g |-> g, queue |-> queue, moves |-> moves, i |-> i,
     dirs |-> dirs]

InitPgn ==
    /\ \E k \in 1..MaxGames :
         \E gs \in [1..k -> GameTrees], v \in BOOLEAN, sp \in BOOLEAN :
            game = [games |-> gs, variations |-> v, split |-> sp]
    /\ walk = Walk("read", 1, <<>>, <<>>, 0, {})
    /\ pending = Idle /\ offsets = Idle /\ calls = Idle /\ last = Idle
    /\ G = Idle /\ uci = Idle /\ root = Idle /\ res = Idle /\ feat = Idle
    /\ fs = Idle /\ pc = Idle /\ X = Idle /\ y = Idle /\ ret = Idle
    /\ args = Idle /\ gen = Idle /\ lc0 = Idle /\ cwd = Idle /\ hist = Idle

\* Lines 9-27: the next game of the PGN, or the end of the PGN.
ReadGame ==
    /\ walk.at = "read"
    /\ walk' = IF walk.g > Len(game.games)
               THEN [walk EXCEPT !.at = "done"]
               ELSE [walk EXCEPT !.at = "queue", !.queue = <<0>>,
                                 !.moves = <<>>]
    /\ UNCHANGED <<game, indexVars, treeVars, parseVars, genVars>>

\* Lines 28-36: one iteration of the while loop on a node.
Visit ==
    /\ walk.at = "queue"
    /\ walk.queue # <<>>
    /\ Head(walk.queue) # None
    /\ LET t == game.games[walk.g]
           curr == Head(walk.queue)
           next_moves == IF game.variations THEN variations_of(t, curr)
                         ELSE <<next_of(t, curr)>>
       IN  walk' = [walk EXCEPT !.queue = Tail(@) \o next_moves,
                                !.moves = @ \o next_moves]
    /\ UNCHANGED <<game, indexVars, treeVars, parseVars, genVars>>

\* Lines 29-33 on the None that next() returned at the end of the mainline:
\* None has no attribute next (nor variations), AttributeError.
VisitNone ==
    /\ walk.at = "queue"
    /\ walk.queue # <<>>
    /\ Head(walk.queue) = None
    /\ walk' = [walk EXCEPT !.at = "raised"]
    /\ UNCHANGED <<game, indexVars, treeVars, parseVars, genVars>>

\* Line 28 with an empty queue: on to the loop of line 38.
EndVisits ==
    /\ walk.at = "queue"
    /\ walk.queue = <<>>
    /\ walk' = [walk EXCEPT !.at = "write", !.i = 0]
    /\ UNCHANGED <<game, indexVars, treeVars, parseVars, genVars>>

\* Lines 38-51: the directory of move i with its fen.txt and uci.txt.
WriteDir ==
    /\ walk.at = "write"
    /\ walk' =
         IF walk.i < Len(walk.moves)
         THEN [walk EXCEPT
                 !.dirs = @ \cup {[game |-> walk.g, i |-> walk.i,
                                   move |-> walk.moves[walk.i + 1],
                                   sub |-> IF ~game.split THEN ""
                                           ELSE IF walk.i % 2 = 0 THEN "white"
                                           ELSE "black"]},
                 !.i = @ + 1]
         ELSE [walk EXCEPT !.at = "read", !.g = @ + 1]
    /\ UNCHANGED <<game, indexVars, treeVars, parseVars, genVars>>

NextPgn == ReadGame \/ Visit \/ VisitNone \/ EndVisits \/ WriteDir

SpecPgn == InitPgn /\ [][NextPgn]_vars

(***************************************************************************)
(* C18 (as stated): moves_from_pgn ends normally in both modes; with       *)
(* variations it visits every node but the game root exactly once, without *)
(* variations exactly the mainline moves, and one directory is written per *)
(* visited move.                                                           *)
(***************************************************************************)
RECURSIVE MainlineFrom(_, _)
MainlineFrom(t, u) ==
    IF next_of(t, u) = None THEN <<>>
    ELSE <<next_of(t, u)>> \o MainlineFrom(t, next_of(t, u))

GamesWritten == IF walk.at = "done" THEN 1..Len(game.games) ELSE 1..(walk.g - 1)

C18_TerminatesVisitingEveryMove ==
    /\ walk.at # "raised"
    /\ walk.at = "write" =>
         LET t == game.games[walk.g]
         IN  IF game.variations
             THEN /\ SeqSet(walk.moves) = 1..(t.n - 1)
                  /\ Len(walk.moves) = t.n - 1
             ELSE walk.moves = MainlineFrom(t, 0)
    /\ \A g \in GamesWritten :
         LET t == game.games[g]
             visited == IF game.variations THEN 1..(t.n - 1)
                        ELSE SeqSet(MainlineFrom(t, 0))
         IN  /\ { d.move : d \in { e \in walk.dirs : e.game = g } } = visited
             /\ Cardinality({ e \in walk.dirs : e.game = g })
                  = Cardinality(visited)

=============================================================================
